---- MODULE Spec2Model ----
(***************************************************************************)
(* Model of the two odds scripts of algo-paris-sportifs:                   *)
(*   odds_script.py         aggregate mode  (best price over bookmakers)   *)
(*   odds_filter_script.py  per-bookmaker mode (own prices and deep links) *)
(*                                                                         *)
(* Decimal prices are written in tenths (30 is 3.0, 6 is 0.6); a Python    *)
(* float carries the decimal it was read from and its rounding error, and  *)
(* the product of three prices is in thousandths.                          *)
(***************************************************************************)
EXTENDS Integers, Sequences, FiniteSets, TLC

VARIABLES
    script,        \* which of the two scripts runs
    x_pc,          \* extractor: position in the nested loops
    event,         \* extractor: the event being extracted (its own fields)
    bookmaker,     \* extractor: loop variable `bookmaker` (its own fields)
    market,        \* extractor: loop variable `market` (its own fields)
    last_read,     \* extractor: what the loop variable `outcome` last held:
                   \*   its classification and whether its price is numeric
    best_odds,     \* extract_three_way_odds: dict best_odds
    ret,           \* extract_three_way_odds: the returned Optional[Dict]
    odds_map,      \* extract_bookmaker_odds: dict odds_map of the current market
    link_map,      \* extract_bookmaker_odds: dict link_map of the current market
    results,       \* extract_bookmaker_odds: list results
    n_bookmakers,  \* extractor: bookmakers iterated so far
    n_markets,     \* extractor: markets iterated so far (whole event)
    seen,          \* history: <<classification, price>> pairs of the numeric,
                   \*   classified outcomes met in h2h markets of the event
    mkt_seen,      \* history: the classifications that met a numeric price in
                   \*   the current h2h market
    offered,       \* history: the numeric prices of the classified outcomes
                   \*   of the current bookmaker's h2h markets
    full_markets,  \* history: h2h markets of the current bookmaker in which
                   \*   all three classifications had a numeric price
    n_complete,    \* history: such markets over the whole event
    bk_first,      \* history: Len(results) when the current bookmaker began
    pc,            \* run: position in the script
    api_key,       \* run: THE_ODDS_API_KEY / API_KEY
    sport_keys,    \* run: argument sport_keys
    target,        \* run: argument target (tenths)
    tol,           \* run: argument tol (tenths)
    max_events_per_sport,  \* run: argument of find_high_odds_events
    i,             \* run: index of the next sport key of the loop
    events,        \* run: loop variable `events` of the last iteration
    records,       \* run: the accumulator (`results` / `records`)
    output,        \* run: the returned list / the rows of the DataFrame
    http,          \* run: the HTTP requests issued so far
    messages,      \* run: what was printed about errors
    exit_status,   \* run: the exit status of the process once pc = "exit"
    fetched,       \* history: the events fetch_odds returned last
    attempts,      \* history: per sport key tried, how its fetch ended
    ok_events      \* history: the events of the keys fetched successfully

xvars == <<x_pc, event, bookmaker, market, last_read, best_odds, ret, odds_map,
           link_map, results, n_bookmakers, n_markets, seen, mkt_seen, offered,
           full_markets, n_complete, bk_first>>

rvars == <<pc, api_key, sport_keys, target, tol, max_events_per_sport, i,
           events, records, output, http, messages, exit_status, fetched,
           attempts, ok_events>>

vars == <<script, xvars, rvars>>

(***************************************************************************)
(* Bounds of the model.                                                    *)
(***************************************************************************)
MaxBookmakers == 2
MaxMarkets == 2
MaxSports == 2
MaxEvents == 2

(***************************************************************************)
(* JSON / Python values.                                                   *)
(***************************************************************************)
\* Python None, JSON null, or a key that is absent (dict.get returns None).
None == "<None>"

OddsScript == "odds_script"
FilterScript == "odds_filter_script"
Scripts == {OddsScript, FilterScript}

(***************************************************************************)
(* Python floats are IEEE 754 doubles.  The double nearest to the decimal  *)
(* n/10 is written [d |-> n, e |-> k]: it is exactly n/10 + k * 2^-53 / 5. *)
(* float_err gives k for the decimals of the model (from float.hex()):     *)
(* the multiples of 0.5 are doubles, 0.6 is the double just below 0.6,     *)
(* 2.4 the double just below 2.4, 3.6 the double just above 3.6.           *)
(***************************************************************************)
float_err(n) ==
    CASE n % 5 = 0 -> 0
      [] n = 6 -> -1
      [] n = 18 -> 2
      [] n = 24 -> -4
      [] n = 31 -> 4
      [] n = 34 -> -4
      [] n = 36 -> 4

Float(n) == [d |-> n, e |-> float_err(n)]

\* x < y, x <= y, x > y on doubles: the decimal parts decide, then the errors
float_lt(x, y) == x.d < y.d \/ (x.d = y.d /\ x.e < y.e)
float_le(x, y) == x.d < y.d \/ (x.d = y.d /\ x.e <= y.e)
float_gt(x, y) == float_lt(y, x)

\* x - y: exact for doubles within a factor 2 of each other (Sterbenz), the
\* only ones the model subtracts.
float_sub(x, y) ==
    CASE 2 * x.d >= y.d /\ 2 * y.d >= x.d -> [d |-> x.d - y.d, e |-> x.e - y.e]

\* abs(x)
float_abs(x) == IF float_lt(x, [d |-> 0, e |-> 0]) THEN [d |-> -x.d, e |-> -x.e] ELSE x

\* home * draw * away, in thousandths: the product of doubles that are
\* multiples of 0.5 is exact, and the model multiplies no others.
float_mul3(h, d, a) ==
    CASE h.e = 0 /\ d.e = 0 /\ a.e = 0 -> h.d * d.d * a.d

\* A JSON price: a decimal number (in tenths), null, or a string.
Num(n) == [t |-> "num", v |-> n, s |-> ""]
JNull == [t |-> "null", v |-> 0, s |-> ""]
Text(str) == [t |-> "str", v |-> 0, s |-> str]

\* Strings that Python's float() parses, with their value in tenths.
NumericText == {"3.0"}
TextValue(str) == IF str = "3.0" THEN 30 ELSE 0

\* float(price) succeeds for numbers and numeric strings; it raises TypeError
\* for None and ValueError for any other string.
float_ok(price) == price.t = "num" \/ (price.t = "str" /\ price.s \in NumericText)
float_val(price) == Float(IF price.t = "num" THEN price.v ELSE TextValue(price.s))

\* Python dicts keyed by "home" / "draw" / "away".
OutcomeKeys == {"home", "draw", "away"}
EmptyDict == [k \in {} |-> 0]
Put(d, key, val) == [k \in (DOMAIN d) \cup {key} |-> IF k = key THEN val ELSE d[k]]

\* Optional[Dict]: None, or a dict.
NoneDict == [is_none |-> TRUE, odds |-> EmptyDict]
SomeDict(d) == [is_none |-> FALSE, odds |-> d]

\* str.lower() on the outcome names of the model.
Lower(name) ==
    CASE name = "Draw" -> "draw"
      [] name = "ESPN" -> "espn"
      [] name = "Lyon" -> "lyon"
      [] name = "Nice" -> "nice"
      [] name = "Over" -> "over"
      [] OTHER -> name

DrawNamesAgg == {"draw", "tie", "espn", "egalité"}
DrawNamesBook == {"draw", "tie", "egalité"}

(***************************************************************************)
(* extract_three_way_odds (odds_script.py), one iteration of its innermost *)
(* loop: classify the outcome, parse its price, keep the maximum.          *)
(***************************************************************************)
outcome_key_agg(ev, name) ==
    IF Lower(name) \in DrawNamesAgg THEN "draw"
    ELSE IF name = ev.home_team THEN "home"
    ELSE IF name = ev.away_team THEN "away"
    ELSE None

\* A variant that keeps the last numeric price of a classification.
agg_outcome_overwrite(best, ev, o) ==
    LET key == outcome_key_agg(ev, o.name) IN
    IF key = None \/ ~float_ok(o.price) THEN best
    ELSE Put(best, key, float_val(o.price))

\* A variant in which a non-numeric price erases the classification's price.
agg_outcome_erase(best, ev, o) ==
    LET key == outcome_key_agg(ev, o.name) IN
    IF key = None THEN best
    ELSE IF ~float_ok(o.price) THEN [k \in (DOMAIN best) \ {key} |-> best[k]]
    ELSE IF key \notin DOMAIN best \/ float_gt(float_val(o.price), best[key])
         THEN Put(best, key, float_val(o.price))
         ELSE best

\* key from the name; float(price) or continue; keep the maximum
agg_outcome(best, ev, o) ==
    LET key == outcome_key_agg(ev, o.name) IN
    IF key = None THEN best
    ELSE IF ~float_ok(o.price) THEN best
    ELSE IF key \notin DOMAIN best \/ float_gt(float_val(o.price), best[key])
         THEN Put(best, key, float_val(o.price))
         ELSE best

\* A variant that settles for two classifications.
agg_return_two(best) ==
    IF Cardinality(DOMAIN best) >= 2 THEN SomeDict(best) ELSE NoneDict

\* return best_odds if len(best_odds) == 3 else None
agg_return(best) ==
    IF Cardinality(DOMAIN best) = 3 THEN SomeDict(best) ELSE NoneDict

(***************************************************************************)
(* _deep_link (odds_filter_script.py): a chain of Python `or`, which       *)
(* yields its first truthy operand and, when none is truthy, its last      *)
(* operand.  dict.get("link") is None for an absent key.                   *)
(***************************************************************************)
Truthy(link) == link # None /\ link # ""

Or(a, b) == IF Truthy(a) THEN a ELSE b

\* A variant that does not look at the market's link.
deep_link_skip_market(ev, bk, mk, o) == Or(Or(o.link, bk.link), ev.link)

_deep_link(ev, bk, mk, o) == Or(Or(Or(o.link, mk.link), bk.link), ev.link)

(***************************************************************************)
(* extract_bookmaker_odds (odds_filter_script.py), one iteration of its    *)
(* innermost loop, and the append that follows the loop over the outcomes. *)
(***************************************************************************)
outcome_key_book(ev, name) ==
    IF Lower(name) \in DrawNamesBook THEN "draw"
    ELSE IF name = ev.home_team THEN "home"
    ELSE IF name = ev.away_team THEN "away"
    ELSE None

\* maps is the pair of dicts (odds_map, link_map)
book_outcome(maps, ev, bk, mk, o) ==
    LET key == outcome_key_book(ev, o.name) IN
    IF key = None THEN maps
    ELSE IF ~float_ok(o.price) THEN maps
    ELSE [odds |-> Put(maps.odds, key, float_val(o.price)),
          link |-> Put(maps.link, key, _deep_link(ev, bk, mk, o))]

BookRecord(maps, ev, bk) ==
    [event_id |-> ev.id,
     bookmaker |-> bk.key,
     home_odds |-> maps.odds["home"],
     draw_odds |-> maps.odds["draw"],
     away_odds |-> maps.odds["away"],
     home_link |-> maps.link["home"],
     draw_link |-> maps.link["draw"],
     away_link |-> maps.link["away"]]

\* if len(odds_map) == 3: results.append({...})
book_market_end(res, maps, ev, bk) ==
    IF Cardinality(DOMAIN maps.odds) = 3
    THEN Append(res, BookRecord(maps, ev, bk))
    ELSE res

(***************************************************************************)
(* The extractors as functions of a whole event: the nested loops over     *)
(* event["bookmakers"], bookmaker["markets"] and market["outcomes"].       *)
(***************************************************************************)
RECURSIVE agg_outcomes(_, _, _)
agg_outcomes(best, ev, os) ==
    IF os = <<>> THEN best
    ELSE agg_outcomes(agg_outcome(best, ev, Head(os)), ev, Tail(os))

RECURSIVE agg_markets(_, _, _)
agg_markets(best, ev, ms) ==
    IF ms = <<>> THEN best
    ELSE agg_markets(IF Head(ms).key # "h2h" THEN best
                     ELSE agg_outcomes(best, ev, Head(ms).outcomes),
                     ev, Tail(ms))

RECURSIVE agg_bookmakers(_, _, _)
agg_bookmakers(best, ev, bks) ==
    IF bks = <<>> THEN best
    ELSE agg_bookmakers(agg_markets(best, ev, Head(bks).markets), ev, Tail(bks))

extract_three_way_odds(ev) ==
    agg_return(agg_bookmakers(EmptyDict, ev, ev.bookmakers))

EmptyMaps == [odds |-> EmptyDict, link |-> EmptyDict]

RECURSIVE book_outcomes(_, _, _, _, _)
book_outcomes(maps, ev, bk, mk, os) ==
    IF os = <<>> THEN maps
    ELSE book_outcomes(book_outcome(maps, ev, bk, mk, Head(os)), ev, bk, mk,
                       Tail(os))

RECURSIVE book_markets(_, _, _, _)
book_markets(res, ev, bk, ms) ==
    IF ms = <<>> THEN res
    ELSE book_markets(
             IF Head(ms).key # "h2h" THEN res
             ELSE book_market_end(
                      res,
                      book_outcomes(EmptyMaps, ev, bk, Head(ms),
                                    Head(ms).outcomes),
                      ev, bk),
             ev, bk, Tail(ms))

RECURSIVE book_bookmakers(_, _, _)
book_bookmakers(res, ev, bks) ==
    IF bks = <<>> THEN res
    ELSE book_bookmakers(book_markets(res, ev, Head(bks), Head(bks).markets),
                         ev, Tail(bks))

extract_bookmaker_odds(ev) == book_bookmakers(<<>>, ev, ev.bookmakers)

(***************************************************************************)
(* The target filter and the ranking of the two scripts.                   *)
(***************************************************************************)
\* abs(price - target) <= tol
near(price, tgt, tl) == float_le(float_abs(float_sub(price, tgt)), tl)

\* all(abs(odds[outcome] - target) <= tol for outcome in odds)
agg_passes(odds, tgt, tl) == \A k \in DOMAIN odds : near(odds[k], tgt, tl)

book_passes(rec, tgt, tl) ==
    /\ near(rec.home_odds, tgt, tl)
    /\ near(rec.draw_odds, tgt, tl)
    /\ near(rec.away_odds, tgt, tl)

\* find_high_odds_events: the body of `for event in events`
agg_event(res, ev, tgt, tl) ==
    LET odds == extract_three_way_odds(ev) IN
    IF odds.is_none \/ DOMAIN odds.odds = {} THEN res
    ELSE IF agg_passes(odds.odds, tgt, tl)
         THEN Append(res,
                     [event_id |-> ev.id,
                      best_odds |-> odds.odds,
                      combined_product |->
                          float_mul3(odds.odds["home"], odds.odds["draw"],
                                     odds.odds["away"])])
         ELSE res

RECURSIVE agg_events(_, _, _, _)
agg_events(res, evs, tgt, tl) ==
    IF evs = <<>> THEN res
    ELSE agg_events(agg_event(res, Head(evs), tgt, tl), Tail(evs), tgt, tl)

WithProduct(rec) ==
    [event_id |-> rec.event_id,
     bookmaker |-> rec.bookmaker,
     home_odds |-> rec.home_odds,
     draw_odds |-> rec.draw_odds,
     away_odds |-> rec.away_odds,
     home_link |-> rec.home_link,
     draw_link |-> rec.draw_link,
     away_link |-> rec.away_link,
     combined_product |-> float_mul3(rec.home_odds, rec.draw_odds, rec.away_odds)]

\* find_events_with_target_odds: the body of `for rec in extract_bookmaker_odds(event)`
RECURSIVE book_recs(_, _, _, _)
book_recs(res, recs, tgt, tl) ==
    IF recs = <<>> THEN res
    ELSE book_recs(IF book_passes(Head(recs), tgt, tl)
                   THEN Append(res, WithProduct(Head(recs)))
                   ELSE res,
                   Tail(recs), tgt, tl)

RECURSIVE book_events(_, _, _, _)
book_events(res, evs, tgt, tl) ==
    IF evs = <<>> THEN res
    ELSE book_events(book_recs(res, extract_bookmaker_odds(Head(evs)), tgt, tl),
                     Tail(evs), tgt, tl)

\* max_events_per_sport: None, or an integer.
NoLimit == [given |-> FALSE, n |-> 0]
Limit(n) == [given |-> TRUE, n |-> n]

Min(a, b) == IF a <= b THEN a ELSE b

\* events[:n] for n >= 0
Slice(evs, n) == SubSeq(evs, 1, Min(n, Len(evs)))

\* if max_events_per_sport: events = events[:max_events_per_sport]
\* (None and 0 are both falsy)
limit_events(evs, lim) ==
    IF lim.given /\ lim.n # 0 THEN Slice(evs, lim.n) ELSE evs

\* results.sort(key=lambda x: x['combined_product'], reverse=True):
\* Python's sort is stable, also with reverse=True.
InsertDesc(sorted, x) ==
    LET before == {k \in 1..Len(sorted) :
                     sorted[k].combined_product >= x.combined_product}
        n == Cardinality(before)
    IN  SubSeq(sorted, 1, n) \o <<x>> \o SubSeq(sorted, n + 1, Len(sorted))

RECURSIVE SortFrom(_, _)
SortFrom(sorted, rest) ==
    IF rest = <<>> THEN sorted
    ELSE SortFrom(InsertDesc(sorted, Head(rest)), Tail(rest))

list_sort_reverse(recs) == SortFrom(<<>>, recs)

\* The sequence without its first element equal to x.
RECURSIVE RemoveFirst(_, _)
RemoveFirst(s, x) ==
    IF s = <<>> THEN <<>>
    ELSE IF Head(s) = x THEN Tail(s)
    ELSE <<Head(s)>> \o RemoveFirst(Tail(s), x)

\* df.sort_values("combined_product", ascending=False).reset_index(drop=True)
\* with the default kind="quicksort", which pandas documents as not stable:
\* the rows come out in non-increasing order, rows of equal product in an
\* order the build (numpy's introsort or its SIMD sorts) decides.  Every
\* result starts with one of the rows of greatest product.
RECURSIVE sort_values_outcomes(_)
sort_values_outcomes(recs) ==
    IF recs = <<>> THEN {<<>>}
    ELSE LET rows == {recs[k] : k \in 1..Len(recs)}
             top == {r \in rows : \A q \in rows :
                                     q.combined_product <= r.combined_product}
         IN  UNION {{<<r>> \o rest : rest \in sort_values_outcomes(RemoveFirst(recs, r))}
                    : r \in top}

(***************************************************************************)
(* The extractors step by step.  The event arrives as the loops read it:   *)
(* neither extractor looks ahead, so each iteration draws the next         *)
(* bookmaker, market or outcome of the event from the input sets.          *)
(***************************************************************************)
HomeTeam == "Lyon"
AwayTeam == "Nice"
Names == {"Lyon", "Nice", "Draw", "Over"}
Prices == {Num(20), Num(30), JNull, Text("N/A")}
MarketKeys == {"h2h", "totals"}
NoLinks == {None}

NoBookmaker == [key |-> 0, link |-> None]
NoMarket == [key |-> "", link |-> None]
NoOutcome == [key |-> None, numeric |-> FALSE, link |-> None]

\* The state of a run before its entry point has acted.
RInit ==
    /\ pc = "start"
    /\ api_key = None
    /\ sport_keys = <<>>
    /\ target = Float(0)
    /\ tol = Float(0)
    /\ max_events_per_sport = NoLimit
    /\ i = 1
    /\ events = <<>>
    /\ records = <<>>
    /\ output = <<>>
    /\ http = <<>>
    /\ messages = <<>>
    /\ exit_status = 0
    /\ fetched = <<>>
    /\ attempts = <<>>
    /\ ok_events = <<>>

Classes(pairs) == {p[1] : p \in pairs}

\* The call of an extractor on an event.
XStart(scripts, links) ==
    /\ script \in scripts
    /\ RInit
    /\ x_pc = "bookmakers"
    /\ \E l \in links :
         event = [id |-> "e1", home_team |-> HomeTeam, away_team |-> AwayTeam,
                  link |-> l]
    /\ bookmaker = NoBookmaker
    /\ market = NoMarket
    /\ last_read = NoOutcome
    /\ best_odds = EmptyDict
    /\ ret = NoneDict
    /\ odds_map = EmptyDict
    /\ link_map = EmptyDict
    /\ results = <<>>
    /\ n_bookmakers = 0
    /\ n_markets = 0
    /\ seen = {}
    /\ mkt_seen = {}
    /\ offered = {}
    /\ full_markets = 0
    /\ n_complete = 0
    /\ bk_first = 0

XInit == XStart(Scripts, NoLinks)

\* for bookmaker in event.get("bookmakers", []):
XBookmaker(links) ==
    /\ x_pc = "bookmakers"
    /\ n_bookmakers < MaxBookmakers
    /\ \E l \in links :
         bookmaker' = [key |-> n_bookmakers + 1, link |-> l]
    /\ n_bookmakers' = n_bookmakers + 1
    /\ x_pc' = "markets"
    /\ offered' = {}
    /\ full_markets' = 0
    /\ bk_first' = Len(results)
    /\ UNCHANGED <<rvars, script, event, market, last_read, best_odds, ret, odds_map,
                   link_map, results, n_markets, seen, mkt_seen, n_complete>>

\* for market in bookmaker.get("markets", []):
\*     if market.get("key") != "h2h": continue
\*     odds_map = {}; link_map = {}          (odds_filter_script.py only)
XMarket(links) ==
    /\ x_pc = "markets"
    /\ n_markets < MaxMarkets
    /\ \E k \in MarketKeys, l \in links :
         /\ market' = [key |-> k, link |-> l]
         /\ x_pc' = IF k = "h2h" THEN "outcomes" ELSE "markets"
         /\ odds_map' = IF k = "h2h" /\ script = FilterScript
                        THEN EmptyDict ELSE odds_map
         /\ link_map' = IF k = "h2h" /\ script = FilterScript
                        THEN EmptyDict ELSE link_map
         /\ mkt_seen' = IF k = "h2h" THEN {} ELSE mkt_seen
    /\ n_markets' = n_markets + 1
    /\ UNCHANGED <<rvars, script, event, bookmaker, last_read, best_odds, ret, results,
                   n_bookmakers, seen, offered, full_markets, n_complete,
                   bk_first>>

\* for outcome in market.get("outcomes", []): ... one iteration
XOutcome(names, prices, links) ==
    /\ x_pc = "outcomes"
    /\ \E nm \in names, p \in prices, l \in links :
         LET o == [name |-> nm, price |-> p, link |-> l]
             key == IF script = OddsScript THEN outcome_key_agg(event, nm)
                    ELSE outcome_key_book(event, nm)
             hit == IF key # None /\ float_ok(p)
                    THEN {<<key, float_val(p)>>} ELSE {}
             maps == book_outcome([odds |-> odds_map, link |-> link_map],
                                  event, bookmaker, market, o)
         IN  /\ last_read' = [key |-> key, numeric |-> float_ok(p), link |-> l]
             /\ best_odds' = IF script = OddsScript
                             THEN agg_outcome(best_odds, event, o)
                             ELSE best_odds
             /\ odds_map' = IF script = FilterScript THEN maps.odds ELSE odds_map
             /\ link_map' = IF script = FilterScript THEN maps.link ELSE link_map
             /\ seen' = IF script = OddsScript THEN seen \cup hit ELSE seen
             /\ mkt_seen' = IF script = FilterScript
                            THEN mkt_seen \cup Classes(hit) ELSE mkt_seen
             /\ offered' = IF script = FilterScript
                           THEN offered \cup {h[2] : h \in hit} ELSE offered
    /\ UNCHANGED <<rvars, script, x_pc, event, bookmaker, market, ret, results,
                   n_bookmakers, n_markets, full_markets, n_complete, bk_first>>

\* the loop over the outcomes of an h2h market ends; odds_filter_script.py
\* appends the market's record when it is complete.  odds_map and
\* link_map are dead from here on (never read before they are assigned
\* again), and the model clears them.
XEndOutcomes ==
    /\ x_pc = "outcomes"
    /\ x_pc' = "markets"
    /\ results' = IF script = FilterScript
                  THEN book_market_end(results,
                                       [odds |-> odds_map, link |-> link_map],
                                       event, bookmaker)
                  ELSE results
    /\ full_markets' = IF script = FilterScript /\ mkt_seen = OutcomeKeys
                       THEN full_markets + 1 ELSE full_markets
    /\ n_complete' = IF script = FilterScript /\ mkt_seen = OutcomeKeys
                     THEN n_complete + 1 ELSE n_complete
    /\ last_read' = NoOutcome
    /\ odds_map' = EmptyDict
    /\ link_map' = EmptyDict
    /\ mkt_seen' = {}
    /\ UNCHANGED <<rvars, script, event, bookmaker, market, best_odds, ret,
                   n_bookmakers, n_markets, seen, offered, bk_first>>

\* the loop over the markets of a bookmaker ends
XEndMarkets ==
    /\ x_pc = "markets"
    /\ x_pc' = "bookmakers"
    /\ UNCHANGED <<rvars, script, event, bookmaker, market, last_read, best_odds, ret,
                   odds_map, link_map, results, n_bookmakers, n_markets, seen,
                   mkt_seen, offered, full_markets, n_complete, bk_first>>

\* the loop over the bookmakers ends: return
XReturn ==
    /\ x_pc = "bookmakers"
    /\ x_pc' = "returned"
    /\ ret' = IF script = OddsScript THEN agg_return(best_odds) ELSE ret
    /\ UNCHANGED <<rvars, script, event, bookmaker, market, last_read, best_odds,
                   odds_map, link_map, results, n_bookmakers, n_markets, seen,
                   mkt_seen, offered, full_markets, n_complete, bk_first>>

XNext ==
    \/ XBookmaker(NoLinks)
    \/ XMarket(NoLinks)
    \/ XOutcome(Names, Prices, NoLinks)
    \/ XEndOutcomes
    \/ XEndMarkets
    \/ XReturn

SpecExtract == XInit /\ [][XNext]_vars

\* The per-bookmaker extractor on events that carry links (includeLinks):
\* every outcome is classified and priced, each level has no link, an
\* empty link or a link of its own.
EventLinks == {None, "", "E"}
BookmakerLinks == {None, "", "B"}
MarketLinks == {None, "", "M"}
OutcomeLinks == {None, "", "O"}
TeamNames == {"Lyon", "Nice", "Draw"}

XInitLink == XStart({FilterScript}, EventLinks)

XNextLink ==
    \/ XBookmaker(BookmakerLinks)
    \/ XMarket(MarketLinks)
    \/ XOutcome(TeamNames, {Num(30)}, OutcomeLinks)
    \/ XEndOutcomes
    \/ XEndMarkets
    \/ XReturn

SpecLink == XInitLink /\ [][XNextLink]_vars


(***************************************************************************)
(* The two scripts as runs: the entry point, then the loop over the sport  *)
(* keys of find_high_odds_events / find_events_with_target_odds (one       *)
(* action per iteration, by how fetch_odds ends), then the sort.           *)
(***************************************************************************)
SeqsUpTo(S, n) == UNION {[1..k -> S] : k \in 0..n}

\* An event with one bookmaker offering the three outcomes in its h2h market.
SimpleEvent(h, d, a) ==
    [id |-> "e1", home_team |-> HomeTeam, away_team |-> AwayTeam, link |-> None,
     bookmakers |-> <<
        [key |-> 1, link |-> None,
         markets |-> <<
            [key |-> "h2h", link |-> None,
             outcomes |-> <<
                [name |-> HomeTeam, price |-> Num(h), link |-> None],
                [name |-> "Draw", price |-> Num(d), link |-> None],
                [name |-> AwayTeam, price |-> Num(a), link |-> None] >>] >>] >>]

\* Values of the environment variable THE_ODDS_API_KEY (None: not set) and
\* of the constant API_KEY of odds_filter_script.py.
EnvKeys == {None, "", "YOUR_API_KEY", "k3y"}
ConfigKeys == {"", "k3y"}

SportNames == {"soccer_epl", "soccer_france_ligue_one"}
SportCatalog ==
    {[key |-> "soccer_epl", group |-> "Soccer"],
     [key |-> "soccer_france_ligue_one", group |-> "Soccer"],
     [key |-> "basketball_nba", group |-> "Basketball"]}

\* target=3.0, tol=0.6 (the defaults, and what the entry points pass),
\* soccer_sports[:5], max_events_per_sport=10
DefaultTarget == 30
DefaultTol == 6
SampleSports == 5
MainMaxEvents == 10

\* The events the provider returns in the runs from the entry points: one
\* that passes 3.0 +/- 0.6 and one that fails.
MainPool == {SimpleEvent(25, 35, 30), SimpleEvent(20, 35, 30)}

\* The arguments and events of the direct calls.
CallPool == {SimpleEvent(h, d, 30) : h \in {24, 25, 30}, d \in {25, 30}}
Targets == {30, 35}
Tols == {0, 5, 6}
Limits == {NoLimit} \cup {Limit(n) : n \in 0..MaxEvents}

OddsRequest(sport) == [path |-> "/v4/sports/{sport_key}/odds/", sport |-> sport]
SportsRequest == [path |-> "/v4/sports/", sport |-> None]

\* The call of find_high_odds_events / find_events_with_target_odds.
Call(keys, tgt, tl, lim) ==
    /\ sport_keys' = keys
    /\ target' = tgt
    /\ tol' = tl
    /\ max_events_per_sport' = lim
    /\ records' = <<>>
    /\ i' = 1
    /\ pc' = "loop"

\* odds_script.py, __main__: the check of the API key
main_odds(key) ==
    /\ script' = OddsScript
    /\ api_key' = key
    /\ IF key = None \/ key = "" \/ key = "YOUR_API_KEY"
       THEN /\ messages' = Append(messages, [kind |-> "no_api_key", sport |-> None])
            /\ exit_status' = 1
            /\ pc' = "exit"
       ELSE /\ pc' = "fetch_sports"
            /\ UNCHANGED <<messages, exit_status>>

MainOddsScript ==
    /\ pc = "start"
    /\ \E key \in EnvKeys : main_odds(key)
    /\ UNCHANGED <<xvars, sport_keys, target, tol, max_events_per_sport, i,
                   events, records, output, http, fetched, attempts, ok_events>>

\* soccer_sports[:5] if soccer_sports else ["soccer_epl"]
sample_sports(soccer_sports) ==
    IF soccer_sports # <<>>
    THEN SubSeq(soccer_sports, 1, Min(SampleSports, Len(soccer_sports)))
    ELSE <<"soccer_epl">>

IsSoccer(sp) == sp.group = "Soccer"

\* odds_script.py, __main__: fetch_sports answers, then find_high_odds_events
FetchSportsOk ==
    /\ pc = "fetch_sports"
    /\ http' = Append(http, SportsRequest)
    /\ \E sports \in SeqsUpTo(SportCatalog, MaxSports) :
         LET soccer == SelectSeq(sports, IsSoccer)
             soccer_sports == [k \in 1..Len(soccer) |-> soccer[k].key]
         IN  Call(sample_sports(soccer_sports), Float(DefaultTarget), Float(DefaultTol),
                  Limit(MainMaxEvents))
    /\ UNCHANGED <<script, xvars, api_key, events, output, messages,
                   exit_status, fetched, attempts, ok_events>>

\* odds_script.py, __main__: fetch_sports raises, soccer_sports = []
FetchSportsFail ==
    /\ pc = "fetch_sports"
    /\ http' = Append(http, SportsRequest)
    /\ messages' = Append(messages, [kind |-> "no_sports", sport |-> None])
    /\ Call(sample_sports(<<>>), Float(DefaultTarget), Float(DefaultTol),
            Limit(MainMaxEvents))
    /\ UNCHANGED <<script, xvars, api_key, events, output, exit_status,
                   fetched, attempts, ok_events>>

\* odds_filter_script.py, main(): `return` leaves the process with status 0
MainFilterScript ==
    /\ pc = "start"
    /\ script' = FilterScript
    /\ \E key \in ConfigKeys, keys \in SeqsUpTo(SportNames, MaxSports) :
         /\ api_key' = key
         /\ IF key = ""
            THEN /\ messages' = Append(messages,
                                       [kind |-> "no_api_key", sport |-> None])
                 /\ exit_status' = 0
                 /\ pc' = "exit"
                 /\ UNCHANGED <<sport_keys, target, tol, max_events_per_sport,
                                records, i>>
            ELSE IF keys = <<>>
            THEN /\ messages' = Append(messages,
                                       [kind |-> "no_sport_keys", sport |-> None])
                 /\ exit_status' = 0
                 /\ pc' = "exit"
                 /\ UNCHANGED <<sport_keys, target, tol, max_events_per_sport,
                                records, i>>
            ELSE /\ Call(keys, Float(DefaultTarget), Float(DefaultTol), NoLimit)
                 /\ UNCHANGED <<messages, exit_status>>
    /\ UNCHANGED <<xvars, events, output, http, fetched, attempts, ok_events>>

\* A direct call of one of the two functions with arguments of the caller's.
CallFind ==
    /\ pc = "start"
    /\ \E sc \in Scripts, tgt \in Targets, tl \in Tols, lim \in Limits :
         /\ sc = FilterScript => lim = NoLimit
         /\ script' = sc
         /\ Call(<<"soccer_epl">>, Float(tgt), Float(tl), lim)
    /\ api_key' = "k3y"
    /\ UNCHANGED <<xvars, events, output, http, messages, exit_status, fetched,
                   attempts, ok_events>>

\* The body of the loop after a successful fetch_odds.
process(res, evs, tgt, tl) ==
    IF script = OddsScript THEN agg_events(res, evs, tgt, tl)
    ELSE book_events(res, evs, tgt, tl)

\* fetch_odds returns the events of the sport
FetchOddsOk(pool) ==
    /\ pc = "loop"
    /\ i <= Len(sport_keys)
    /\ http' = Append(http, OddsRequest(sport_keys[i]))
    /\ \E evs \in SeqsUpTo(pool, MaxEvents) :
         LET evs2 == IF script = OddsScript
                     THEN limit_events(evs, max_events_per_sport) ELSE evs
         IN  /\ fetched' = evs
             /\ events' = evs2
             /\ records' = process(records, evs2, target, tol)
             /\ ok_events' = ok_events \o evs
    /\ attempts' = Append(attempts, "ok")
    /\ i' = i + 1
    /\ UNCHANGED <<script, xvars, pc, api_key, sport_keys, target, tol,
                   max_events_per_sport, output, messages, exit_status>>

\* HTTP 404: fetch_odds returns [], the loop over the events runs zero times
FetchOdds404 ==
    /\ pc = "loop"
    /\ i <= Len(sport_keys)
    /\ http' = Append(http, OddsRequest(sport_keys[i]))
    /\ fetched' = <<>>
    /\ events' = <<>>
    /\ attempts' = Append(attempts, "404")
    /\ i' = i + 1
    /\ UNCHANGED <<script, xvars, pc, api_key, sport_keys, target, tol,
                   max_events_per_sport, records, output, messages,
                   exit_status, ok_events>>

\* A variant in which a failing sport ends the loop (break).
skip_sport_and_stop(kind) ==
    /\ http' = Append(http, OddsRequest(sport_keys[i]))
    /\ messages' = Append(messages, [kind |-> "skip", sport |-> sport_keys[i]])
    /\ attempts' = Append(attempts, kind)
    /\ i' = Len(sport_keys) + 1

\* except Exception: print(...); continue
skip_sport(kind) ==
    /\ http' = Append(http, OddsRequest(sport_keys[i]))
    /\ messages' = Append(messages, [kind |-> "skip", sport |-> sport_keys[i]])
    /\ attempts' = Append(attempts, kind)
    /\ i' = i + 1

\* a status other than 404 and 2xx: raise_for_status raises
FetchOddsHttpError ==
    /\ pc = "loop"
    /\ i <= Len(sport_keys)
    /\ skip_sport("http_error")
    /\ UNCHANGED <<script, xvars, pc, api_key, sport_keys, target, tol,
                   max_events_per_sport, events, records, output, exit_status,
                   fetched, ok_events>>

\* requests.get raises (timeout, connection error)
FetchOddsTransportError ==
    /\ pc = "loop"
    /\ i <= Len(sport_keys)
    /\ skip_sport("transport")
    /\ UNCHANGED <<script, xvars, pc, api_key, sport_keys, target, tol,
                   max_events_per_sport, events, records, output, exit_status,
                   fetched, ok_events>>

\* after the loop: results.sort(...) / df.sort_values(...) unless df.empty
sorted_outcomes(recs) ==
    IF script = OddsScript THEN {list_sort_reverse(recs)}
    ELSE IF recs = <<>> THEN {<<>>}
    ELSE sort_values_outcomes(recs)

Finish ==
    /\ pc = "loop"
    /\ i > Len(sport_keys)
    /\ \E out \in sorted_outcomes(records) : output' = out
    /\ pc' = "done"
    /\ UNCHANGED <<script, xvars, api_key, sport_keys, target, tol,
                   max_events_per_sport, i, events, records, http, messages,
                   exit_status, fetched, attempts, ok_events>>

XIdle ==
    /\ x_pc = "idle"
    /\ event = [id |-> "e1", home_team |-> HomeTeam, away_team |-> AwayTeam,
                link |-> None]
    /\ bookmaker = NoBookmaker
    /\ market = NoMarket
    /\ last_read = NoOutcome
    /\ best_odds = EmptyDict
    /\ ret = NoneDict
    /\ odds_map = EmptyDict
    /\ link_map = EmptyDict
    /\ results = <<>>
    /\ n_bookmakers = 0
    /\ n_markets = 0
    /\ seen = {}
    /\ mkt_seen = {}
    /\ offered = {}
    /\ full_markets = 0
    /\ n_complete = 0
    /\ bk_first = 0

Init == script = None /\ RInit /\ XIdle

Next ==
    \/ MainOddsScript
    \/ FetchSportsOk
    \/ FetchSportsFail
    \/ MainFilterScript
    \/ FetchOddsOk(MainPool)
    \/ FetchOdds404
    \/ FetchOddsHttpError
    \/ FetchOddsTransportError
    \/ Finish

Spec == Init /\ [][Next]_vars

CallNext ==
    \/ CallFind
    \/ FetchOddsOk(CallPool)
    \/ Finish

SpecCall == Init /\ [][CallNext]_vars

(***************************************************************************)
(* Properties.                                                             *)
(***************************************************************************)
Count(s, x) == Cardinality({k \in DOMAIN s : s[k] = x})

\* The three prices of a record of either script, as <<home, draw, away>>.
Triple(rec) ==
    IF script = OddsScript
    THEN <<rec.best_odds["home"], rec.best_odds["draw"], rec.best_odds["away"]>>
    ELSE <<rec.home_odds, rec.draw_odds, rec.away_odds>>

Triples(recs) == [k \in DOMAIN recs |-> Triple(recs[k])]

\* The price triples of the records the extractor of the running script
\* yields for the events, in encounter order.
RECURSIVE ExtractedTriples(_)
ExtractedTriples(evs) ==
    IF evs = <<>> THEN <<>>
    ELSE LET ev == Head(evs)
             here == IF script = OddsScript
                     THEN LET r == extract_three_way_odds(ev)
                          IN  IF r.is_none THEN <<>>
                              ELSE << <<r.odds["home"], r.odds["draw"], r.odds["away"]>> >>
                     ELSE LET rs == extract_bookmaker_odds(ev)
                          IN  [k \in DOMAIN rs |->
                                 <<rs[k].home_odds, rs[k].draw_odds, rs[k].away_odds>>]
         IN  here \o ExtractedTriples(Tail(evs))

\* |price - target| <= tol on the decimal prices, for each of the three
Within(t) ==
    \A k \in 1..3 : target.d - tol.d <= t[k].d /\ t[k].d <= target.d + tol.d

\* C1: in both scripts an extracted record is in the output if and only if
\* each of its three prices is within tol of target, the boundary included:
\* a passing record appears as often as it was extracted, a failing one never,
\* and nothing else appears.
C1_FilterIff ==
    pc = "done" =>
        LET ext == ExtractedTriples(events)
            out == Triples(output)
        IN  /\ \A k \in DOMAIN ext :
                 Count(out, ext[k]) = IF Within(ext[k]) THEN Count(ext, ext[k]) ELSE 0
            /\ \A k \in DOMAIN out : Count(ext, out[k]) > 0

\* The stable descending sort, by selection: the first of the records of
\* greatest product, then the stable descending sort of the others.
FirstMax(recs) ==
    CHOOSE k \in DOMAIN recs :
        /\ \A j \in DOMAIN recs : recs[j].combined_product <= recs[k].combined_product
        /\ \A j \in 1..(k - 1) : recs[j].combined_product < recs[k].combined_product

RECURSIVE StableDescending(_)
StableDescending(recs) ==
    IF recs = <<>> THEN <<>>
    ELSE LET k == FirstMax(recs)
         IN  <<recs[k]>> \o StableDescending(SubSeq(recs, 1, k - 1)
                                             \o SubSeq(recs, k + 1, Len(recs)))

\* C2: in both scripts the returned sequence is the stable descending sort
\* of the passing records by combined_product (ties keep encounter order).
C2_StableSort == pc = "done" => output = StableDescending(records)

\* C3: a record exists only when home, draw and away each got a numeric
\* price: extract_three_way_odds returns None when fewer than three
\* classifications did, and a returned result carries all three; and
\* extract_bookmaker_odds has emitted exactly as many records as it has read
\* h2h markets in which all three classifications got a numeric price.
C3_AllThree ==
    /\ (script = OddsScript /\ x_pc = "returned") =>
            /\ (Classes(seen) # OutcomeKeys => ret.is_none)
            /\ (~ret.is_none => DOMAIN ret.odds = OutcomeKeys)
    /\ (script = FilterScript /\ x_pc \in {"markets", "bookmakers", "returned"}) =>
            Len(results) = n_complete

\* The aggregate extractor returned None for an event that priced home and
\* away only.
C3_Witness ==
    /\ script = OddsScript
    /\ x_pc = "returned"
    /\ Classes(seen) = {"home", "away"}
    /\ ret.is_none

MaxOf(S) == CHOOSE x \in S : \A y \in S : float_le(y, x)
PricesOf(pairs, c) == {p[2] : p \in {q \in pairs : q[1] = c}}

\* C4: when extract_three_way_odds returns a result, its value for each of
\* home, draw and away is the greatest numeric price among all the outcomes
\* of that classification read in the h2h markets of the event's bookmakers,
\* whatever the order they were read in; the call returns one result or None.
C4_MaxPerClass ==
    (script = OddsScript /\ x_pc = "returned" /\ ~ret.is_none) =>
        \A c \in OutcomeKeys : ret.odds[c] = MaxOf(PricesOf(seen, c))

\* A result was returned for an event whose second bookmaker priced home
\* both at 2.0 and at 3.0.
C4_Witness ==
    /\ script = OddsScript
    /\ x_pc = "returned"
    /\ ~ret.is_none
    /\ n_bookmakers = 2
    /\ PricesOf(seen, "home") = {Float(20), Float(30)}
    /\ ret.odds["home"] = Float(30)

\* C5: extract_bookmaker_odds yields exactly one record for each bookmaker
\* that offers all three classified outcomes with numeric prices in an h2h
\* market and none for any other, and the prices of a record are prices that
\* bookmaker offered.
C5_OnePerBookmaker ==
    (script = FilterScript /\ x_pc \in {"markets", "bookmakers", "returned"}
        /\ n_bookmakers > 0) =>
        /\ Len(results) - bk_first = IF full_markets >= 1 THEN 1 ELSE 0
        /\ \A k \in 1..Len(results) :
              IF k > bk_first
              THEN /\ results[k].bookmaker = bookmaker.key
                   /\ {results[k].home_odds, results[k].draw_odds,
                       results[k].away_odds} \subseteq offered
              ELSE results[k].bookmaker # bookmaker.key

NonEmpty(link) == link # None /\ link # ""

\* The first non-empty link in the order outcome, market, bookmaker, event,
\* for a resolved link r.
ResolvedRight(r, chain) ==
    IF \E k \in 1..4 : NonEmpty(chain[k])
    THEN \E k \in 1..4 : /\ NonEmpty(chain[k])
                         /\ \A j \in 1..(k - 1) : ~NonEmpty(chain[j])
                         /\ r = chain[k]
    ELSE ~NonEmpty(r)

IsOddsRequest(req) == req.sport # None
IsSkip(msg) == msg.kind = "skip"
Failed(k) == attempts[k] \in {"http_error", "transport"}

\* The messages the failing keys of the list leave, in list order.
RECURSIVE SkipsFrom(_)
SkipsFrom(k) ==
    IF k > Len(sport_keys) THEN <<>>
    ELSE (IF Failed(k) THEN <<[kind |-> "skip", sport |-> sport_keys[k]]>> ELSE <<>>)
         \o SkipsFrom(k + 1)

\* C7: when the loop over the sport keys is over, every key of the list has
\* been attempted once, in list order; the failing keys, and only they (not
\* the keys answered 404), were logged and skipped; and the output is a
\* filter-and-rank result of the events of the successfully fetched keys.
C7_Isolation ==
    pc = "done" =>
        /\ SelectSeq(http, IsOddsRequest)
             = [k \in 1..Len(sport_keys) |-> OddsRequest(sport_keys[k])]
        /\ Len(attempts) = Len(sport_keys)
        /\ SelectSeq(messages, IsSkip) = SkipsFrom(1)
        /\ output \in sorted_outcomes(process(<<>>, ok_events, target, tol))

\* A run over two keys ended: the fetch of the first failed, the second was
\* fetched and gave the output.
C7_Witness ==
    /\ pc = "done"
    /\ Len(sport_keys) = 2
    /\ Failed(1)
    /\ attempts[2] = "ok"
    /\ output # <<>>

\* C8: reading an outcome whose price is not numeric changes nothing of
\* what the extractor has recorded: the best prices, the prices and links of
\* the market, and the records emitted are as if the outcome were not there.
C8_NonNumericDiscarded ==
    [][(x_pc = "outcomes" /\ x_pc' = "outcomes" /\ ~last_read'.numeric)
          => /\ best_odds' = best_odds
             /\ odds_map' = odds_map
             /\ link_map' = link_map
             /\ results' = results]_vars

\* An outcome of a classification that already has a price was read with a
\* price that is not numeric, in either extractor.
C8_Witness ==
    /\ x_pc = "outcomes"
    /\ ~last_read.numeric
    /\ last_read.key # None
    /\ \/ script = OddsScript /\ last_read.key \in DOMAIN best_odds
       \/ script = FilterScript /\ last_read.key \in DOMAIN odds_map

\* C9: in the entry point of each script, a missing or empty API key ends
\* the run at once with a message and a non-zero exit status, and no HTTP
\* request is issued.
C9_MissingKey ==
    (pc = "exit" /\ api_key \in {None, ""}) =>
        /\ exit_status # 0
        /\ messages # <<>>
        /\ http = <<>>

\* C10: find_high_odds_events with max_events_per_sport = n, n = 0 included,
\* passes to extraction the first n events of the fetched list (all of them
\* when it has fewer); with None it passes every fetched event.
C10_Limit ==
    (script = OddsScript /\ pc \in {"loop", "done"} /\ attempts # <<>>) =>
        events = IF max_events_per_sport.given
                 THEN SubSeq(fetched, 1, Min(max_events_per_sport.n, Len(fetched)))
                 ELSE fetched

====
